---- MODULE Spec2Model ----
(***************************************************************************)
(* Model of Collectors/energy/collect_energy.py: the GPIO edge callback,   *)
(* the shared pulse list, the aggregation loop with its SQLite batch       *)
(* writer, and the signal handler that requests shutdown.                  *)
(*                                                                         *)
(* Two execution contexts are interleaved: the pigpio callback thread      *)
(* (edge_callback) and the main thread (aggregator_loop).  The signal      *)
(* handler and the wall clock are the environment.                         *)
(*                                                                         *)
(* Time is counted in whole seconds.  Records are <<epoch, dt_ms, count>>, *)
(* observations are <<epoch, delta_us>>.                                   *)
(*                                                                         *)
(* Specifications: Spec is the interleaved system; ReplaySpec runs the     *)
(* loop over a backlog of observations; RestartSpec does so over a table   *)
(* left by an earlier run; CallbackSpec runs edge_callback alone with      *)
(* 32-bit ticks; LiveSpec is Spec with a fair main thread.                 *)
(*                                                                         *)
(* The module also models Collectors/state/collect_state.py, a separate    *)
(* program: its epoch generator, its debounce loop and its furnace_state   *)
(* table.  StateSpec runs that program alone over a wall clock that may    *)
(* advance, stall or step back; its rows are <<epoch, state>>.             *)
(***************************************************************************)
EXTENDS Integers, Sequences, FiniteSets, TLC

(***************************************************************************)
(* Configuration (collect_energy.py lines 26-31).  DbaseBlkTime, MIN_TIME  *)
(* and GLITCH_THRESHOLD_US have the program's values.  MAX_RECORDS is 5000 *)
(* in the program; the model runs the program configured with a cap of 2,  *)
(* so that the size trigger is reached within the explored runs.           *)
(***************************************************************************)
DbaseBlkTime == 60

MAX_RECORDS == 2

MIN_TIME == 5

GLITCH_THRESHOLD_US == 50000

\* (tick - previous_tick) & 0xFFFFFFFF keeps the difference modulo the width
\* of the tick counter.  The program's counter is 32 bits wide; the model
\* checker's integers are 32-bit signed, so the model runs a 20-bit counter,
\* which keeps every interval and every sum of intervals representable.
TickModulus == 1048576

\* previous_tick = None, old_epoch = None
NoValue == -1

(***************************************************************************)
(* Bounds of the explored runs.                                            *)
(***************************************************************************)
\* wall-clock second at which aggregator_loop starts
StartClock == 100

\* the seconds at which the wall clock is read in the explored runs, as
\* offsets from StartClock: just past one window, just past two windows,
\* and exactly one flush interval later
ClockOffsets == {0, MIN_TIME + 1, 2 * MIN_TIME + 2, DbaseBlkTime}

ClockTimes == {StartClock + o : o \in ClockOffsets}

\* number of falling edges delivered by the edge source
MaxEdges == 4

\* observations waiting in pulse_list at any time
MaxQueue == 2

\* tick values the edge source delivers: 16 -> 60016 is an interval of
\* 60000, a repeated tick an interval of 0 (a glitch), and 60016 -> 16 a
\* wrap of the counter
TickValues == {16, 60016}

VARIABLES
    previous_tick,          \* global previous_tick (line 56)
    pulse_list,             \* global pulse_list (line 57)
    running,                \* global running (line 59)
    out_buffer,             \* out_buffer (line 101)
    last_flush_time,        \* last_flush_time (line 102)
    old_epoch,              \* old_epoch (line 105)
    AggStart,               \* AggStart (line 106)
    dt_agg,                 \* dt_agg (line 107)
    pulse_count,            \* pulse_count (line 108)
    block_input_pulses,     \* block_input_pulses (line 110)
    block_output_records,   \* block_output_records (line 111)
    store,                  \* rows of table energy, keyed by epoch
    pc,                     \* position of the main thread in aggregator_loop
    now,                    \* int(time.time())
    exit_status,            \* exit status of the process, NoValue while it runs
    \* history variables, not read by the program
    emitted,                \* every record passed to emit_output, in order
    emitted_obs,            \* for each emitted record, the observations folded
    window_obs,             \* observations folded into the open window
    written,                \* every record handed to a committed executemany
    processed,              \* every observation popped from pulse_list, in order
    glitches,               \* number of popped observations that were filtered
    edges,                  \* number of falling edges delivered
    enqueued_at_stop,       \* observations enqueued before stop was requested
    drained,                \* the shutdown drain (lines 195-196) has run
    flush_cause,            \* which call of flush_buffer committed last
    due_after_step,         \* the last iteration ended with a batch due for a flush
    enqueued,               \* every observation appended to pulse_list, in order
    processed_after_stop,   \* an observation was handled after stop was requested
    events,                 \* the (level, tick) pairs passed to edge_callback
                            \* (recorded where the callback runs alone)
    \* Collectors/state/collect_state.py
    used_mask,              \* used_mask (lines 213-216)
    stable_state,           \* stable_state (line 235)
    candidate_state,        \* candidate_state (line 246)
    candidate_count,        \* candidate_count (line 247)
    last_epoch,             \* epoch_gen.last_epoch (line 56)
    furnace_state,          \* rows <<epoch, state>> of table furnace_state
    state_pc,               \* position of collect_state's main()
    \* history variables of collect_state, not read by the program
    recent,                 \* masked values of the latest samples of the loop
    logged,                 \* rows inserted by this run, in order
    published               \* (epoch, state) pairs passed to mqtt_publish

\* number of observations popped from pulse_list (block_input_pulses without
\* its reset)
ingested == Len(processed)

vars == <<previous_tick, pulse_list, running, out_buffer, last_flush_time,
          old_epoch, AggStart, dt_agg, pulse_count, block_input_pulses,
          block_output_records, store, pc, now, emitted, emitted_obs,
          window_obs, written, processed, glitches, edges, enqueued_at_stop,
          drained, flush_cause, due_after_step, exit_status, enqueued,
          processed_after_stop, events, used_mask, stable_state,
          candidate_state, candidate_count, last_epoch, furnace_state,
          state_pc, recent, logged, published>>

\* the variables of collect_state.py
state_vars == <<used_mask, stable_state, candidate_state, candidate_count,
                last_epoch, furnace_state, state_pc, recent, logged,
                published>>

prog_vars == <<out_buffer, last_flush_time, old_epoch, AggStart, dt_agg,
               pulse_count, block_input_pulses, block_output_records, store>>

hist_vars == <<emitted, emitted_obs, window_obs, written, processed, glitches,
               drained, flush_cause, due_after_step, processed_after_stop>>

(***************************************************************************)
(* Pure helpers                                                            *)
(***************************************************************************)
\* (tick - previous_tick) & 0xFFFFFFFF   (line 75)
TickDelta(tick, prev) == (tick - prev) % TickModulus

\* variant: only an interval of zero is filtered
IsGlitchZeroOnly(delta_us) == delta_us < 1

\* variant: the comparison is the wrong way round
IsGlitchInverted(delta_us) == delta_us > GLITCH_THRESHOLD_US

\* delta_us < GLITCH_THRESHOLD_US   (line 166)
IsGlitch(delta_us) == delta_us < GLITCH_THRESHOLD_US

\* variant: an observation stamped before the window's start closes it too
InWindowTwoSided(epoch, start) == epoch >= start /\ epoch <= start + MIN_TIME

\* variant: only observations of the window's first second are folded
InWindowSameSecond(epoch, start) == epoch <= start

\* variant: an observation exactly MIN_TIME after the start closes the window
InWindowExclusive(epoch, start) == epoch < start + MIN_TIME

\* epoch <= AggStart + MIN_TIME   (line 178)
InWindow(epoch, start) == epoch <= start + MIN_TIME

\* round(dt_agg / 1000): Python rounds a tie to the even neighbour
RoundMs(dt) ==
    LET q == dt \div 1000
        r == dt % 1000
    IN  IF 2 * r < 1000 THEN q
        ELSE IF 2 * r > 1000 THEN q + 1
        ELSE IF q % 2 = 0 THEN q ELSE q + 1

\* (time.time() - last_flush_time >= DbaseBlkTime)   (line 157)
IdleFlushDue(t, last) == t - last >= DbaseBlkTime

\* variant: only the size of the batch triggers the flush
FlushDueSizeOnly(t, last, n) == n >= MAX_RECORDS

\* variant: the cap must be exceeded, not reached
FlushDueAboveCap(t, last, n) ==
    (t - last >= DbaseBlkTime) \/ (n > MAX_RECORDS)

\* time or max records reached   (line 191)
FlushDue(t, last, n) == (t - last >= DbaseBlkTime) \/ (n >= MAX_RECORDS)

\* variant: a window of a single pulse is not drained
DrainDueStrict(count) == count > 1

\* if pulse_count > 0   (line 195)
DrainDue(count) == count > 0

\* variant: INSERT OR IGNORE, the row already stored for the epoch stays
InsertOrIgnoreRow(rows, rec) ==
    IF \E x \in rows : x[1] = rec[1] THEN rows ELSE rows \cup {rec}

\* INSERT OR REPLACE of one row: the row with the same epoch is replaced
UpsertRow(rows, rec) == {x \in rows : x[1] # rec[1]} \cup {rec}

\* executemany over the batch, in batch order
RECURSIVE Upsert(_, _)
Upsert(rows, batch) ==
    IF batch = <<>> THEN rows
    ELSE Upsert(UpsertRow(rows, Head(batch)), Tail(batch))

RECURSIVE SumCounts(_)
SumCounts(recs) ==
    IF recs = <<>> THEN 0 ELSE Head(recs)[3] + SumCounts(Tail(recs))

RECURSIVE SumDeltas(_)
SumDeltas(obs) ==
    IF obs = <<>> THEN 0 ELSE Head(obs)[2] + SumDeltas(Tail(obs))

(***************************************************************************)
(* Initial state: module globals (lines 56-59) and the locals of           *)
(* aggregator_loop after lines 90-111, with an empty table.                *)
(***************************************************************************)
\* collect_state.py is a separate program: where collect_energy.py is
\* explored, it has not been started
StateNotStarted ==
    /\ used_mask = 0
    /\ stable_state = 0
    /\ candidate_state = 0
    /\ candidate_count = 0
    /\ last_epoch = 0
    /\ furnace_state = {}
    /\ state_pc = "off"
    /\ recent = <<>>
    /\ logged = <<>>
    /\ published = <<>>

Init ==
    /\ previous_tick = NoValue
    /\ pulse_list = <<>>
    /\ running = TRUE
    /\ out_buffer = <<>>
    /\ now = StartClock
    /\ last_flush_time = StartClock
    /\ old_epoch = NoValue
    /\ AggStart = 0
    /\ dt_agg = 0
    /\ pulse_count = 0
    /\ block_input_pulses = 0
    /\ block_output_records = 0
    /\ store = {}
    /\ pc = "loop"
    /\ emitted = <<>>
    /\ emitted_obs = <<>>
    /\ window_obs = <<>>
    /\ written = <<>>
    /\ processed = <<>>
    /\ glitches = 0
    /\ edges = 0
    /\ enqueued_at_stop = NoValue
    /\ drained = FALSE
    /\ flush_cause = "none"
    /\ due_after_step = FALSE
    /\ exit_status = NoValue
    /\ enqueued = <<>>
    /\ processed_after_stop = FALSE
    /\ events = <<>>
    /\ StateNotStarted

(***************************************************************************)
(* Environment: wall clock, edge source, termination signal                *)
(***************************************************************************)
\* main() is still inside aggregator_loop: once it has returned or raised,
\* the finally clause stops pigpio and the process ends (lines 235-239)
Alive == pc \notin {"closed", "failed"}

ClockAdvance ==
    /\ Alive
    /\ \E t \in ClockTimes :
          /\ t > now
          /\ now' = t
    /\ UNCHANGED <<previous_tick, pulse_list, running, prog_vars, pc,
                   hist_vars, edges, enqueued_at_stop>>
    /\ UNCHANGED <<exit_status, enqueued, events>>
    /\ UNCHANGED state_vars

\* the system clock is stepped backwards (nothing in the program prevents it)
ClockStepBack ==
    /\ Alive
    /\ \E t \in ClockTimes :
          /\ t < now
          /\ now' = t
    /\ UNCHANGED <<previous_tick, pulse_list, running, prog_vars, pc,
                   hist_vars, edges, enqueued_at_stop>>
    /\ UNCHANGED <<exit_status, enqueued, events>>
    /\ UNCHANGED state_vars

\* variant: the first falling edge is measured against tick 0 and enqueued
EdgeFirstEnqueues ==
    /\ Alive
    /\ edges < MaxEdges
    /\ previous_tick = NoValue
    /\ \E tick \in TickValues :
          /\ pulse_list' = Append(pulse_list, <<now, TickDelta(tick, 0)>>)
          /\ enqueued' = Append(enqueued, <<now, TickDelta(tick, 0)>>)
          /\ previous_tick' = tick
    /\ edges' = edges + 1
    /\ UNCHANGED <<running, prog_vars, pc, now, hist_vars, enqueued_at_stop>>
    /\ UNCHANGED <<exit_status, events>>
    /\ UNCHANGED state_vars

\* edge_callback with level = 0, first falling edge (lines 71-73)
EdgeFirst ==
    /\ Alive
    /\ edges < MaxEdges
    /\ previous_tick = NoValue
    /\ \E tick \in TickValues : previous_tick' = tick
    /\ edges' = edges + 1
    /\ UNCHANGED <<pulse_list, running, prog_vars, pc, now, hist_vars,
                   enqueued_at_stop>>
    /\ UNCHANGED <<exit_status, enqueued, events>>
    /\ UNCHANGED state_vars

\* variant: the observation is put at the front, pulse_list.insert(0, ...)
EdgePulseInsertFront ==
    /\ Alive
    /\ edges < MaxEdges
    /\ previous_tick # NoValue
    /\ Len(pulse_list) < MaxQueue
    /\ \E tick \in TickValues :
          /\ pulse_list' = <<<<now, TickDelta(tick, previous_tick)>>>> \o pulse_list
          /\ enqueued' = Append(enqueued, <<now, TickDelta(tick, previous_tick)>>)
          /\ previous_tick' = tick
    /\ edges' = edges + 1
    /\ UNCHANGED <<running, prog_vars, pc, now, hist_vars, enqueued_at_stop>>
    /\ UNCHANGED <<exit_status, events>>
    /\ UNCHANGED state_vars

\* edge_callback with level = 0, later falling edges (lines 75-80)
EdgePulse ==
    /\ Alive
    /\ edges < MaxEdges
    /\ previous_tick # NoValue
    /\ Len(pulse_list) < MaxQueue
    /\ \E tick \in TickValues :
          /\ pulse_list' = Append(pulse_list, <<now, TickDelta(tick, previous_tick)>>)
          /\ enqueued' = Append(enqueued, <<now, TickDelta(tick, previous_tick)>>)
          /\ previous_tick' = tick
    /\ edges' = edges + 1
    /\ UNCHANGED <<running, prog_vars, pc, now, hist_vars, enqueued_at_stop>>
    /\ UNCHANGED <<exit_status, events>>
    /\ UNCHANGED state_vars

\* edge_callback with level # 0 (lines 68-69): returns at once
EdgeIgnored ==
    /\ Alive
    /\ \E level \in {1, 2} : level # 0
    /\ UNCHANGED vars

\* shutdown_handler (lines 205-207)
shutdown_handler ==
    /\ Alive
    /\ running' = FALSE
    /\ enqueued_at_stop' = IF running THEN Len(processed) + Len(pulse_list)
                           ELSE enqueued_at_stop
    /\ UNCHANGED <<previous_tick, pulse_list, prog_vars, pc, now, hist_vars,
                   edges>>
    /\ UNCHANGED <<exit_status, enqueued, events>>
    /\ UNCHANGED state_vars

(***************************************************************************)
(* aggregator_loop, main thread.  pc is "loop" at the while test           *)
(* (line 154), "body" inside one iteration, "drain" at line 195, "flush"   *)
(* at line 198, "closed" after line 199 and "failed" once an exception of  *)
(* the store has left the function.                                        *)
(***************************************************************************)
\* emit_output (lines 140-144): the batch after the append
EmitOutput(buf, rec) == Append(buf, rec)

\* variant: the early return of line 118 is missing, an empty batch is
\* written like any other
FlushBufferWritesEmpty(buf, bip, bor, ok, next) ==
    IF ok
    THEN /\ store' = Upsert(store, buf)
         /\ written' = written \o buf
         /\ out_buffer' = <<>>
         /\ last_flush_time' = now
         /\ block_input_pulses' = 0
         /\ block_output_records' = 0
         /\ pc' = next
    ELSE /\ out_buffer' = buf
         /\ block_input_pulses' = bip
         /\ block_output_records' = bor
         /\ pc' = "failed"
         /\ UNCHANGED <<store, written, last_flush_time>>

\* variant: a failing executemany leaves the first row of the batch behind
FlushBufferPartial(buf, bip, bor, ok, next) ==
    IF buf = <<>>
    THEN /\ out_buffer' = buf
         /\ block_input_pulses' = bip
         /\ block_output_records' = bor
         /\ pc' = next
         /\ UNCHANGED <<store, written, last_flush_time>>
    ELSE IF ok
    THEN /\ store' = Upsert(store, buf)
         /\ written' = written \o buf
         /\ out_buffer' = <<>>
         /\ last_flush_time' = now
         /\ block_input_pulses' = 0
         /\ block_output_records' = 0
         /\ pc' = next
    ELSE /\ store' = UpsertRow(store, Head(buf))
         /\ out_buffer' = buf
         /\ block_input_pulses' = bip
         /\ block_output_records' = bor
         /\ pc' = "failed"
         /\ UNCHANGED <<written, last_flush_time>>

\* flush_buffer (lines 113-138) applied to batch buf with the diagnostic
\* counters bip, bor; ok says whether executemany and commit succeed; on
\* failure the exception leaves aggregator_loop, on success control
\* continues at next.
FlushBuffer(buf, bip, bor, ok, next) ==
    IF buf = <<>>
    THEN /\ out_buffer' = buf
         /\ block_input_pulses' = bip
         /\ block_output_records' = bor
         /\ pc' = next
         /\ UNCHANGED <<store, written, last_flush_time>>
    ELSE IF ok
    THEN /\ store' = Upsert(store, buf)
         /\ written' = written \o buf
         /\ out_buffer' = <<>>
         /\ last_flush_time' = now
         /\ block_input_pulses' = 0
         /\ block_output_records' = 0
         /\ pc' = next
    ELSE /\ out_buffer' = buf
         /\ block_input_pulses' = bip
         /\ block_output_records' = bor
         /\ pc' = "failed"
         /\ UNCHANGED <<store, written, last_flush_time>>

\* no flush on this path
NoFlush(buf, bip, bor, next) ==
    /\ out_buffer' = buf
    /\ block_input_pulses' = bip
    /\ block_output_records' = bor
    /\ pc' = next
    /\ UNCHANGED <<store, written, last_flush_time>>

\* variant: the window is opened without counting its first pulse
SeedWindowUncounted(o) == [start |-> o[1], dt |-> o[2], count |-> 0]

\* the window opened by observation o: AggStart, dt_agg, pulse_count
\* (lines 172-174 and 184-186)
SeedWindow(o) == [start |-> o[1], dt |-> o[2], count |-> 1]

\* variant: the fold adds the interval and forgets the pulse
FoldWindowNoCount(start, dt, count, o) ==
    [start |-> start, dt |-> dt + o[2], count |-> count]

\* observation o folded into the window   (lines 179-180)
FoldWindow(start, dt, count, o) ==
    [start |-> start, dt |-> dt + o[2], count |-> count + 1]

\* variant: the milliseconds are truncated, int(dt_agg / 1000)
WindowRecordTruncated(start, dt, count) == <<start, dt \div 1000, count>>

\* the record emitted for a window   (lines 183 and 196)
WindowRecord(start, dt, count) == <<start, RoundMs(dt), count>>

\* at the end of an iteration: the batch is not empty and the time or the
\* size trigger of line 191 holds
BatchDue ==
    /\ out_buffer' # <<>>
    /\ \/ now - last_flush_time' >= DbaseBlkTime
       \/ Len(out_buffer') >= MAX_RECORDS

\* variant: while True
LoopTestIgnoresStop ==
    /\ pc = "loop"
    /\ pc' = "body"
    /\ UNCHANGED <<previous_tick, pulse_list, running, prog_vars, now,
                   hist_vars, edges, enqueued_at_stop>>
    /\ UNCHANGED <<exit_status, enqueued, events>>
    /\ UNCHANGED state_vars

\* while running:   (line 154)
LoopTest ==
    /\ pc = "loop"
    /\ pc' = IF running THEN "body" ELSE "drain"
    /\ UNCHANGED <<previous_tick, pulse_list, running, prog_vars, now,
                   hist_vars, edges, enqueued_at_stop>>
    /\ UNCHANGED <<exit_status, enqueued, events>>
    /\ UNCHANGED state_vars

\* variant: the loop sleeps through the idle branch without the flush check
IdleNoFlush ==
    /\ pc = "body"
    /\ pulse_list = <<>>
    /\ NoFlush(out_buffer, block_input_pulses, block_output_records, "loop")
    /\ due_after_step' = BatchDue
    /\ UNCHANGED <<previous_tick, pulse_list, running, old_epoch, AggStart,
                   dt_agg, pulse_count, now, emitted, emitted_obs,
                   window_obs, processed, glitches, edges, enqueued_at_stop,
                   drained, flush_cause>>
    /\ UNCHANGED <<exit_status, enqueued, processed_after_stop, events>>
    /\ UNCHANGED state_vars

\* empty pulse_list: time check, flush, sleep, continue   (lines 155-160)
Idle ==
    /\ pc = "body"
    /\ pulse_list = <<>>
    /\ \E ok \in BOOLEAN :
          IF IdleFlushDue(now, last_flush_time)
          THEN FlushBuffer(out_buffer, block_input_pulses,
                           block_output_records, ok, "loop")
          ELSE NoFlush(out_buffer, block_input_pulses,
                       block_output_records, "loop")
    /\ flush_cause' = IF written' # written THEN "idle" ELSE flush_cause
    /\ due_after_step' = BatchDue
    /\ UNCHANGED <<previous_tick, pulse_list, running, old_epoch, AggStart,
                   dt_agg, pulse_count, now, emitted, emitted_obs,
                   window_obs, processed, glitches, edges, enqueued_at_stop,
                   drained>>
    /\ UNCHANGED <<exit_status, enqueued, processed_after_stop, events>>
    /\ UNCHANGED state_vars

\* pop, count, glitch filter, continue   (lines 163-167)
ProcessGlitch ==
    /\ pc = "body"
    /\ pulse_list # <<>>
    /\ IsGlitch(Head(pulse_list)[2])
    /\ pulse_list' = Tail(pulse_list)
    /\ processed' = Append(processed, Head(pulse_list))
    /\ glitches' = glitches + 1
    /\ NoFlush(out_buffer, block_input_pulses + 1, block_output_records, "loop")
    /\ due_after_step' = BatchDue
    /\ UNCHANGED <<previous_tick, running, old_epoch, AggStart, dt_agg,
                   pulse_count, now, emitted, emitted_obs, window_obs, edges,
                   enqueued_at_stop, drained, flush_cause>>
    /\ processed_after_stop' = (processed_after_stop \/ ~running)
    /\ UNCHANGED <<exit_status, enqueued, events>>
    /\ UNCHANGED state_vars

\* pop, count, first pulse ever, continue   (lines 163-175)
ProcessSeed ==
    /\ pc = "body"
    /\ pulse_list # <<>>
    /\ ~IsGlitch(Head(pulse_list)[2])
    /\ old_epoch = NoValue
    /\ pulse_list' = Tail(pulse_list)
    /\ processed' = Append(processed, Head(pulse_list))
    /\ old_epoch' = Head(pulse_list)[1]
    /\ AggStart' = SeedWindow(Head(pulse_list)).start
    /\ dt_agg' = SeedWindow(Head(pulse_list)).dt
    /\ pulse_count' = SeedWindow(Head(pulse_list)).count
    /\ window_obs' = <<Head(pulse_list)>>
    /\ NoFlush(out_buffer, block_input_pulses + 1, block_output_records, "loop")
    /\ due_after_step' = BatchDue
    /\ UNCHANGED <<previous_tick, running, now, emitted, emitted_obs,
                   glitches, edges, enqueued_at_stop, drained, flush_cause>>
    /\ processed_after_stop' = (processed_after_stop \/ ~running)
    /\ UNCHANGED <<exit_status, enqueued, events>>
    /\ UNCHANGED state_vars

\* pop, count, fold into the window, flush check   (lines 163-180, 188-192)
ProcessFold ==
    /\ pc = "body"
    /\ pulse_list # <<>>
    /\ ~IsGlitch(Head(pulse_list)[2])
    /\ old_epoch # NoValue
    /\ InWindow(Head(pulse_list)[1], AggStart)
    /\ pulse_list' = Tail(pulse_list)
    /\ processed' = Append(processed, Head(pulse_list))
    /\ dt_agg' = FoldWindow(AggStart, dt_agg, pulse_count, Head(pulse_list)).dt
    /\ pulse_count' =
          FoldWindow(AggStart, dt_agg, pulse_count, Head(pulse_list)).count
    /\ old_epoch' = Head(pulse_list)[1]
    /\ window_obs' = Append(window_obs, Head(pulse_list))
    /\ \E ok \in BOOLEAN :
          IF FlushDue(now, last_flush_time, Len(out_buffer))
          THEN FlushBuffer(out_buffer, block_input_pulses + 1,
                           block_output_records, ok, "loop")
          ELSE NoFlush(out_buffer, block_input_pulses + 1,
                       block_output_records, "loop")
    /\ flush_cause' = IF written' # written THEN "step" ELSE flush_cause
    /\ AggStart' = FoldWindow(AggStart, dt_agg, pulse_count, Head(pulse_list)).start
    /\ due_after_step' = BatchDue
    /\ UNCHANGED <<previous_tick, running, now, emitted, emitted_obs,
                   glitches, edges, enqueued_at_stop, drained>>
    /\ processed_after_stop' = (processed_after_stop \/ ~running)
    /\ UNCHANGED <<exit_status, enqueued, events>>
    /\ UNCHANGED state_vars

\* pop, count, emit the window, reseed, flush check   (lines 163-178, 181-192)
ProcessClose ==
    /\ pc = "body"
    /\ pulse_list # <<>>
    /\ ~IsGlitch(Head(pulse_list)[2])
    /\ old_epoch # NoValue
    /\ ~InWindow(Head(pulse_list)[1], AggStart)
    /\ pulse_list' = Tail(pulse_list)
    /\ processed' = Append(processed, Head(pulse_list))
    /\ emitted' = Append(emitted, WindowRecord(AggStart, dt_agg, pulse_count))
    /\ emitted_obs' = Append(emitted_obs, window_obs)
    /\ AggStart' = SeedWindow(Head(pulse_list)).start
    /\ dt_agg' = SeedWindow(Head(pulse_list)).dt
    /\ pulse_count' = SeedWindow(Head(pulse_list)).count
    /\ old_epoch' = Head(pulse_list)[1]
    /\ window_obs' = <<Head(pulse_list)>>
    /\ LET buf == EmitOutput(out_buffer, WindowRecord(AggStart, dt_agg, pulse_count))
       IN  \E ok \in BOOLEAN :
              IF FlushDue(now, last_flush_time, Len(buf))
              THEN FlushBuffer(buf, block_input_pulses + 1,
                               block_output_records + 1, ok, "loop")
              ELSE NoFlush(buf, block_input_pulses + 1,
                           block_output_records + 1, "loop")
    /\ flush_cause' = IF written' # written THEN "step" ELSE flush_cause
    /\ due_after_step' = BatchDue
    /\ UNCHANGED <<previous_tick, running, now, glitches, edges,
                   enqueued_at_stop, drained>>
    /\ processed_after_stop' = (processed_after_stop \/ ~running)
    /\ UNCHANGED <<exit_status, enqueued, events>>
    /\ UNCHANGED state_vars

\* emit the last aggregation window on shutdown   (lines 194-196)
Drain ==
    /\ pc = "drain"
    /\ IF DrainDue(pulse_count)
       THEN /\ out_buffer' = EmitOutput(out_buffer,
                                        WindowRecord(AggStart, dt_agg, pulse_count))
            /\ block_output_records' = block_output_records + 1
            /\ emitted' = Append(emitted, WindowRecord(AggStart, dt_agg, pulse_count))
            /\ emitted_obs' = Append(emitted_obs, window_obs)
       ELSE UNCHANGED <<out_buffer, block_output_records, emitted, emitted_obs>>
    /\ pc' = "flush"
    /\ drained' = TRUE
    /\ UNCHANGED due_after_step
    /\ UNCHANGED <<previous_tick, pulse_list, running, last_flush_time,
                   old_epoch, AggStart, dt_agg, pulse_count,
                   block_input_pulses, store, now, window_obs, written,
                   processed, glitches, edges, enqueued_at_stop, flush_cause>>
    /\ UNCHANGED <<exit_status, enqueued, processed_after_stop, events>>
    /\ UNCHANGED state_vars

\* variant: the final flush obeys the time and size thresholds
FinalFlushIfDue ==
    /\ pc = "flush"
    /\ \E ok \in BOOLEAN :
          IF FlushDue(now, last_flush_time, Len(out_buffer))
          THEN FlushBuffer(out_buffer, block_input_pulses,
                           block_output_records, ok, "closed")
          ELSE NoFlush(out_buffer, block_input_pulses, block_output_records,
                       "closed")
    /\ flush_cause' = IF written' # written THEN "final" ELSE flush_cause
    /\ UNCHANGED due_after_step
    /\ UNCHANGED <<previous_tick, pulse_list, running, old_epoch, AggStart,
                   dt_agg, pulse_count, now, emitted, emitted_obs,
                   window_obs, processed, glitches, edges, enqueued_at_stop,
                   drained>>
    /\ UNCHANGED <<exit_status, enqueued, processed_after_stop, events>>
    /\ UNCHANGED state_vars

\* final flush_buffer() and conn.close()   (lines 198-199)
FinalFlush ==
    /\ pc = "flush"
    /\ \E ok \in BOOLEAN :
          FlushBuffer(out_buffer, block_input_pulses, block_output_records,
                      ok, "closed")
    /\ flush_cause' = IF written' # written THEN "final" ELSE flush_cause
    /\ UNCHANGED due_after_step
    /\ UNCHANGED <<previous_tick, pulse_list, running, old_epoch, AggStart,
                   dt_agg, pulse_count, now, emitted, emitted_obs,
                   window_obs, processed, glitches, edges, enqueued_at_stop,
                   drained>>
    /\ UNCHANGED <<exit_status, enqueued, processed_after_stop, events>>
    /\ UNCHANGED state_vars

\* main(), lines 235-243: aggregator_loop has returned or raised; the finally
\* clause stops pigpio and prints; a return ends the process with status 0,
\* the exception of the store leaves main() uncaught and the interpreter
\* ends the process with status 1
main_finally ==
    /\ pc \in {"closed", "failed"}
    /\ exit_status = NoValue
    /\ exit_status' = IF pc = "closed" THEN 0 ELSE 1
    /\ UNCHANGED <<previous_tick, pulse_list, running, prog_vars, pc, now,
                   hist_vars, edges, enqueued_at_stop, enqueued, events>>
    /\ UNCHANGED state_vars

LoopStep ==
    \/ LoopTest
    \/ Idle
    \/ ProcessGlitch
    \/ ProcessSeed
    \/ ProcessFold
    \/ ProcessClose
    \/ Drain
    \/ FinalFlush

Next ==
    \/ ClockAdvance
    \/ ClockStepBack
    \/ EdgeFirst
    \/ EdgePulse
    \/ EdgeIgnored
    \/ shutdown_handler
    \/ LoopStep
    \/ main_finally

Spec == Init /\ [][Next]_vars

(***************************************************************************)
(* Replay: aggregator_loop run over a backlog.  The callback is registered *)
(* (line 227) before aggregator_loop is entered (line 236), and it runs in *)
(* another thread, so the loop can find any number of observations waiting *)
(* when it polls.  The replay starts the loop on each stream of at most    *)
(* ReplayLen observations drawn from ReplayObs and lets it consume the     *)
(* stream while the clock advances; no further edge arrives.               *)
(***************************************************************************)
\* length of the replayed streams
ReplayLen == 4

\* the clock when the replay starts: the latest timestamp of ReplayObs
ReplayClock == StartClock + MIN_TIME + 2

\* observations of the replayed streams: intervals of 60, 80 and 90 ms at
\* seconds 100, 101 and 107, a 32 us glitch, and at second 106 (exactly
\* MIN_TIME after 101) 60.5 ms (a rounding tie) and 60.7 ms
ReplayObs ==
    { <<StartClock, 60000>>, <<StartClock + 1, 80000>>,
      <<StartClock + MIN_TIME + 2, 90000>>, <<StartClock + MIN_TIME, 32>>,
      <<StartClock + MIN_TIME + 1, 60500>>,
      <<StartClock + MIN_TIME + 1, 60700>> }

RECURSIVE Streams(_)
Streams(n) ==
    IF n = 0 THEN {<<>>}
    ELSE LET shorter == Streams(n - 1)
         IN  shorter \cup {Append(st, o) : st \in shorter, o \in ReplayObs}

ReplayInit ==
    /\ previous_tick \in TickValues
    /\ pulse_list \in Streams(ReplayLen)
    /\ running = TRUE
    /\ out_buffer = <<>>
    /\ now = ReplayClock
    /\ last_flush_time = StartClock
    /\ old_epoch = NoValue
    /\ AggStart = 0
    /\ dt_agg = 0
    /\ pulse_count = 0
    /\ block_input_pulses = 0
    /\ block_output_records = 0
    /\ store = {}
    /\ pc = "loop"
    /\ emitted = <<>>
    /\ emitted_obs = <<>>
    /\ window_obs = <<>>
    /\ written = <<>>
    /\ processed = <<>>
    /\ glitches = 0
    /\ edges = Len(pulse_list) + 1
    /\ enqueued_at_stop = NoValue
    /\ drained = FALSE
    /\ flush_cause = "none"
    /\ due_after_step = FALSE
    /\ exit_status = NoValue
    /\ enqueued = pulse_list
    /\ processed_after_stop = FALSE
    /\ events = <<>>
    /\ StateNotStarted

ReplayNext ==
    \/ ClockAdvance
    \/ shutdown_handler
    \/ LoopStep
    \/ main_finally

ReplaySpec == ReplayInit /\ [][ReplayNext]_vars

(***************************************************************************)
(* Restart: the table survives the process (CREATE TABLE IF NOT EXISTS,    *)
(* line 93), so aggregator_loop can start on rows an earlier run wrote,    *)
(* some of them for seconds the new run will report again.  The restart    *)
(* replays the streams shorter than ReplayLen over each such table.        *)
(***************************************************************************)
\* tables left by an earlier run: empty, the row the example stream writes,
\* another payload for the same second, and that payload with a row for the
\* following second
PriorStores ==
    { {},
      { <<StartClock, 140, 2>> },
      { <<StartClock, 999, 9>> },
      { <<StartClock, 999, 9>>, <<StartClock + 1, 80, 1>> } }

RestartInit ==
    /\ previous_tick \in TickValues
    /\ pulse_list \in Streams(ReplayLen - 1)
    /\ running = TRUE
    /\ out_buffer = <<>>
    /\ now = ReplayClock
    /\ last_flush_time = StartClock
    /\ old_epoch = NoValue
    /\ AggStart = 0
    /\ dt_agg = 0
    /\ pulse_count = 0
    /\ block_input_pulses = 0
    /\ block_output_records = 0
    /\ store \in PriorStores
    /\ pc = "loop"
    /\ emitted = <<>>
    /\ emitted_obs = <<>>
    /\ window_obs = <<>>
    /\ written = <<>>
    /\ processed = <<>>
    /\ glitches = 0
    /\ edges = Len(pulse_list) + 1
    /\ enqueued_at_stop = NoValue
    /\ drained = FALSE
    /\ flush_cause = "none"
    /\ due_after_step = FALSE
    /\ exit_status = NoValue
    /\ enqueued = pulse_list
    /\ processed_after_stop = FALSE
    /\ events = <<>>
    /\ StateNotStarted

RestartSpec == RestartInit /\ [][ReplayNext]_vars

(***************************************************************************)
(* The callback on its own, with the tick counter at its full width.       *)
(* pigpio passes tick as an unsigned 32-bit number of microseconds; it is  *)
(* kept here as the pair <<high half, low half>> of 16-bit halves, because *)
(* the model checker's integers end below 2^31.  Every call of             *)
(* edge_callback is recorded in events, whatever its level.                *)
(***************************************************************************)
\* 0x10000: the halves of a tick are in 0 .. Half - 1
Half == 65536

\* tick values delivered: 0, 0x10, 0xFFFF, 0x10000 and 0xFFFFFFF0
Ticks32 ==
    { <<0, 0>>, <<0, 16>>, <<0, Half - 1>>, <<1, 0>>, <<Half - 1, Half - 16>> }

\* level: 0 falling edge, 1 rising edge, 2 watchdog timeout
Levels == {0, 1, 2}

\* number of calls of edge_callback
MaxEvents == 3

\* previous_tick = None, where a tick is a pair of halves
NoTick == <<>>

\* variant: the halves are subtracted without the mask
TickDelta32Unmasked(tick, prev) == <<tick[1] - prev[1], tick[2] - prev[2]>>

\* (tick - previous_tick) & 0xFFFFFFFF   (line 75) on halves: the low halves
\* are subtracted with a borrow out of the high halves, and the mask drops
\* the borrow out of the high halves
TickDelta32(tick, prev) ==
    LET borrow == IF tick[2] < prev[2] THEN 1 ELSE 0
    IN  <<(tick[1] - prev[1] - borrow) % Half, (tick[2] - prev[2]) % Half>>

\* variant: the level is not examined
edge_callback_any_level(level, tick) ==
    /\ Len(events) < MaxEvents
    /\ events' = Append(events, <<level, tick>>)
    /\ IF previous_tick = NoTick
       THEN /\ previous_tick' = tick
            /\ edges' = edges + 1
            /\ UNCHANGED <<pulse_list, enqueued>>
       ELSE /\ pulse_list' =
                  Append(pulse_list, <<now, TickDelta32(tick, previous_tick)>>)
            /\ enqueued' =
                  Append(enqueued, <<now, TickDelta32(tick, previous_tick)>>)
            /\ previous_tick' = tick
            /\ edges' = edges + 1
    /\ UNCHANGED <<running, prog_vars, pc, now, hist_vars, enqueued_at_stop,
                   exit_status>>
    /\ UNCHANGED state_vars

\* edge_callback(gpio, level, tick)   (lines 65-80)
edge_callback(level, tick) ==
    /\ Len(events) < MaxEvents
    /\ events' = Append(events, <<level, tick>>)
    /\ IF level # 0
       THEN UNCHANGED <<previous_tick, pulse_list, enqueued, edges>>
       ELSE IF previous_tick = NoTick
       THEN /\ previous_tick' = tick
            /\ edges' = edges + 1
            /\ UNCHANGED <<pulse_list, enqueued>>
       ELSE /\ pulse_list' =
                  Append(pulse_list, <<now, TickDelta32(tick, previous_tick)>>)
            /\ enqueued' =
                  Append(enqueued, <<now, TickDelta32(tick, previous_tick)>>)
            /\ previous_tick' = tick
            /\ edges' = edges + 1
    /\ UNCHANGED <<running, prog_vars, pc, now, hist_vars, enqueued_at_stop,
                   exit_status>>
    /\ UNCHANGED state_vars

EdgeEvent == \E level \in Levels : \E tick \in Ticks32 : edge_callback(level, tick)

CallbackNext ==
    \/ ClockAdvance
    \/ EdgeEvent

CallbackInit ==
    /\ previous_tick = NoTick
    /\ pulse_list = <<>>
    /\ running = TRUE
    /\ out_buffer = <<>>
    /\ now = StartClock
    /\ last_flush_time = StartClock
    /\ old_epoch = NoValue
    /\ AggStart = 0
    /\ dt_agg = 0
    /\ pulse_count = 0
    /\ block_input_pulses = 0
    /\ block_output_records = 0
    /\ store = {}
    /\ pc = "loop"
    /\ emitted = <<>>
    /\ emitted_obs = <<>>
    /\ window_obs = <<>>
    /\ written = <<>>
    /\ processed = <<>>
    /\ glitches = 0
    /\ edges = 0
    /\ enqueued_at_stop = NoValue
    /\ drained = FALSE
    /\ flush_cause = "none"
    /\ due_after_step = FALSE
    /\ exit_status = NoValue
    /\ enqueued = <<>>
    /\ processed_after_stop = FALSE
    /\ events = <<>>
    /\ StateNotStarted

CallbackSpec == CallbackInit /\ [][CallbackNext]_vars

(***************************************************************************)
(* Collectors/state/collect_state.py: main() samples a word of input bits, *)
(* masks it with the bits state.cfg marks as used, debounces it and logs   *)
(* every accepted change under an epoch drawn from EpochGenerator.  The    *)
(* table furnace_state survives the process, so a run can start on rows    *)
(* of an earlier run.  collect_energy.py is not running here.              *)
(***************************************************************************)
DEBOUNCE_COUNT == 5

\* number of rows one run inserts in the explored runs
MaxLogged == 3

\* raw words read by read_raw_state: bits 0 and 1 in three combinations,
\* and bit 0 together with bit 2, which no explored mask uses
RawStates == {0, 1, 2, 5}

\* used_mask as lines 213-216 compute it: bit 0 used, or bits 0 and 1
UsedMasks == {1, 3}

\* furnace_state as an earlier run left it: empty, one row of the second the
\* run starts in, or a row stamped past every second of the explored runs
\* (the clock has been set back since)
PriorStateTables ==
    { {}, { <<StartClock, 0>> }, { <<StartClock + DbaseBlkTime + 1, 1>> } }

\* a & b
RECURSIVE BitAnd(_, _)
BitAnd(a, b) ==
    IF a = 0 \/ b = 0 THEN 0
    ELSE (a % 2) * (b % 2) + 2 * BitAnd(a \div 2, b \div 2)

\* raw_state & used_mask   (lines 235, 252)
Masked(raw, mask) == BitAnd(raw, mask)

\* load_last_epoch (lines 143-149): MAX(epoch), 0 for an empty table
LoadLastEpoch(table) ==
    IF table = {} THEN 0
    ELSE CHOOSE e \in {x[1] : x \in table} : \A x \in table : x[1] <= e

\* variant: only a clock behind the last epoch is corrected
EpochNextBehindOnly(t, last) == IF t < last THEN last + 1 ELSE t

\* EpochGenerator.next (lines 58-63) at clock reading t
EpochNext(t, last) == IF t <= last THEN last + 1 ELSE t

\* INSERT INTO furnace_state: the primary key rejects a second row of an epoch
InsertFails(table, epoch) == \E x \in table : x[1] = epoch

\* variant: a sample equal to the stable state does not restart the count
DebounceNoRestart(stable, cand, count, masked) ==
    IF masked # stable
    THEN LET c == IF masked # cand THEN 1 ELSE count + 1
         IN  IF c >= DEBOUNCE_COUNT
             THEN [stable |-> masked, cand |-> masked, count |-> 0,
                   accepted |-> TRUE]
             ELSE [stable |-> stable, cand |-> masked, count |-> c,
                   accepted |-> FALSE]
    ELSE [stable |-> stable, cand |-> cand, count |-> count,
          accepted |-> FALSE]

\* one pass of lines 254-276 for the masked sample: the new stable_state,
\* candidate_state and candidate_count, and whether lines 264-274 ran
Debounce(stable, cand, count, masked) ==
    IF masked # stable
    THEN LET c == IF masked # cand THEN 1 ELSE count + 1
         IN  IF c >= DEBOUNCE_COUNT
             THEN [stable |-> masked, cand |-> masked, count |-> 0,
                   accepted |-> TRUE]
             ELSE [stable |-> stable, cand |-> masked, count |-> c,
                   accepted |-> FALSE]
    ELSE [stable |-> stable, cand |-> cand, count |-> 0,
          accepted |-> FALSE]

\* the latest DEBOUNCE_COUNT entries of a sequence
Latest(seq) ==
    IF Len(seq) <= DEBOUNCE_COUNT THEN seq
    ELSE SubSeq(seq, Len(seq) - DEBOUNCE_COUNT + 1, Len(seq))

StateInit ==
    /\ previous_tick = NoValue
    /\ pulse_list = <<>>
    /\ running = TRUE
    /\ out_buffer = <<>>
    /\ now = StartClock
    /\ last_flush_time = StartClock
    /\ old_epoch = NoValue
    /\ AggStart = 0
    /\ dt_agg = 0
    /\ pulse_count = 0
    /\ block_input_pulses = 0
    /\ block_output_records = 0
    /\ store = {}
    /\ pc = "off"
    /\ emitted = <<>>
    /\ emitted_obs = <<>>
    /\ window_obs = <<>>
    /\ written = <<>>
    /\ processed = <<>>
    /\ glitches = 0
    /\ edges = 0
    /\ enqueued_at_stop = NoValue
    /\ drained = FALSE
    /\ flush_cause = "none"
    /\ due_after_step = FALSE
    /\ exit_status = NoValue
    /\ enqueued = <<>>
    /\ processed_after_stop = FALSE
    /\ events = <<>>
    /\ used_mask \in UsedMasks
    /\ stable_state = 0
    /\ candidate_state = 0
    /\ candidate_count = 0
    /\ last_epoch = 0
    /\ furnace_state \in PriorStateTables
    /\ state_pc = "main"
    /\ recent = <<>>
    /\ logged = <<>>
    /\ published = <<>>

energy_vars == <<previous_tick, pulse_list, running, prog_vars, pc,
                 hist_vars, edges, enqueued_at_stop, exit_status, enqueued,
                 events>>

\* main() up to the loop (lines 228-247): the generator starts from the
\* largest stored epoch, the first sample is logged and published without
\* debouncing; an INSERT the primary key rejects raises out of main()
state_main ==
    /\ state_pc = "main"
    /\ \E raw \in RawStates :
          LET epoch == EpochNext(now, LoadLastEpoch(furnace_state))
              row == <<epoch, Masked(raw, used_mask)>>
          IN  /\ stable_state' = Masked(raw, used_mask)
              /\ last_epoch' = epoch
              /\ IF InsertFails(furnace_state, epoch)
                 THEN /\ state_pc' = "failed"
                      /\ UNCHANGED <<furnace_state, logged, published,
                                     candidate_state, candidate_count>>
                 ELSE /\ furnace_state' = furnace_state \cup {row}
                      /\ logged' = Append(logged, row)
                      /\ published' = Append(published, row)
                      /\ candidate_state' = Masked(raw, used_mask)
                      /\ candidate_count' = 0
                      /\ state_pc' = "sample"
    /\ UNCHANGED <<used_mask, recent, now, energy_vars>>

\* one iteration of the loop (lines 250-279)
state_sample ==
    /\ state_pc = "sample"
    /\ Len(logged) < MaxLogged
    /\ \E raw \in RawStates :
          LET masked == Masked(raw, used_mask)
              d == Debounce(stable_state, candidate_state, candidate_count,
                            masked)
              epoch == EpochNext(now, last_epoch)
              row == <<epoch, d.stable>>
          IN  /\ recent' = Latest(Append(recent, masked))
              /\ stable_state' = d.stable
              /\ candidate_state' = d.cand
              /\ IF ~d.accepted
                 THEN /\ candidate_count' = d.count
                      /\ state_pc' = "sample"
                      /\ UNCHANGED <<last_epoch, furnace_state, logged,
                                     published>>
                 ELSE /\ last_epoch' = epoch
                      /\ IF InsertFails(furnace_state, epoch)
                         THEN /\ state_pc' = "failed"
                              /\ candidate_count' = candidate_count + 1
                              /\ UNCHANGED <<furnace_state, logged, published>>
                         ELSE /\ furnace_state' = furnace_state \cup {row}
                              /\ logged' = Append(logged, row)
                              /\ published' = Append(published, row)
                              /\ candidate_count' = d.count
                              /\ state_pc' = "sample"
    /\ UNCHANGED <<used_mask, now, energy_vars>>

\* KeyboardInterrupt (lines 281-290)
state_interrupt ==
    /\ state_pc = "sample"
    /\ state_pc' = "stopped"
    /\ UNCHANGED <<used_mask, stable_state, candidate_state, candidate_count,
                   last_epoch, furnace_state, recent, logged, published,
                   now, energy_vars>>

StateNext ==
    \/ ClockAdvance
    \/ ClockStepBack
    \/ state_main
    \/ state_sample
    \/ state_interrupt

StateSpec == StateInit /\ [][StateNext]_vars

(***************************************************************************)
(* Liveness: the main thread keeps running; time.sleep(0.2) (line 159)     *)
(* returns and every other statement of the loop terminates, so a step of  *)
(* the loop that stays possible is eventually taken.  Nothing is assumed   *)
(* of the clock, the edge source or the signal.                            *)
(***************************************************************************)
LiveSpec == Spec /\ WF_vars(LoopStep)

(***************************************************************************)
(* Properties                                                              *)
(***************************************************************************)
\* the main thread has left the while loop through its test (line 154)
LoopExited == pc \in {"drain", "flush", "closed"}

\* C1: once stop is requested, every observation enqueued before the request
\* is dequeued and processed before the shutdown drain: the loop never
\* exits while it has ingested fewer observations than were enqueued
\* before stop.
C1_StopDrainsChannel == LoopExited => ingested >= enqueued_at_stop

\* C2: when aggregator_loop has terminated after a stop without a store
\* failure, the batch is empty and every record emitted during the run has
\* been written, in emission order, and is a row of the store.
C2_NoRecordLostOnCleanShutdown ==
    pc = "closed" =>
        /\ out_buffer = <<>>
        /\ written = emitted
        /\ \A i \in 1..Len(emitted) : emitted[i] \in store

\* a clean shutdown whose only record was written by the final flush, less
\* than the flush interval after start-up and below the size cap
C2_Witness ==
    /\ pc = "closed"
    /\ Len(emitted) = 1
    /\ written = emitted
    /\ flush_cause = "final"
    /\ Len(written) < MAX_RECORDS
    /\ now - StartClock < DbaseBlkTime

\* C3: the step from line 195 to line 198 emits exactly one record
\* (epoch = AggStart, pulseCount = pulse_count) into the batch when
\* pulse_count > 0 and nothing when pulse_count = 0, and writes nothing to
\* the store: the record is emitted before the final flush.
C3_ShutdownDrain ==
    [][ (pc = "drain" /\ pc' # "drain") =>
           /\ pc' = "flush"
           /\ written' = written
           /\ store' = store
           /\ IF pulse_count > 0
              THEN /\ Len(emitted') = Len(emitted) + 1
                   /\ SubSeq(emitted', 1, Len(emitted)) = emitted
                   /\ emitted'[Len(emitted')][1] = AggStart
                   /\ emitted'[Len(emitted')][3] = pulse_count
                   /\ out_buffer' = Append(out_buffer, emitted'[Len(emitted')])
              ELSE /\ emitted' = emitted
                   /\ out_buffer' = out_buffer ]_vars

\* a stream that ended mid-window with three pulses has been drained as one
\* record, not yet flushed
C3_Witness ==
    /\ pc = "flush"
    /\ pulse_count = 3
    /\ Len(emitted) = 1
    /\ emitted[1][3] = 3
    /\ out_buffer = emitted
    /\ written = <<>>

\* C4: pulses are conserved: the pulse counts of the emitted records, plus
\* the glitch-filtered observations, plus the count of the open window while
\* it has not been emitted by the drain, equal the observations ingested.
C4_Conservation ==
    SumCounts(emitted) + glitches + (IF drained THEN 0 ELSE pulse_count)
        = ingested

\* at termination, after a glitch, a window close and the drain
C4_Witness ==
    /\ pc = "closed"
    /\ glitches >= 1
    /\ Len(emitted) >= 2
    /\ ingested >= 3

\* a step of the main thread that handles one observation or one idle check
StepDone == pc = "body" /\ pc' # "body"

\* the observation the main thread is about to pop
NextObs == Head(pulse_list)

\* ms is an integer nearest to us / 1000
NearestMs(ms, us) == (1000 * ms - us <= 500) /\ (us - 1000 * ms <= 500)

\* C5: whenever the loop has finished handling one step (an observation of
\* any kind, or an idle check) with a non-empty batch that is due by time or
\* by size, the batch is flushed before the next observation is dequeued:
\* the loop never pops an observation after a step that left such a batch.
C5_FlushAfterEveryStep ==
    [][ (StepDone /\ pulse_list # <<>>) => ~due_after_step ]_vars

\* C6: handling an observation whose interval is below the glitch threshold
\* pops it, adds one to block_input_pulses and changes nothing else of the
\* aggregation state, the batch or the store; and no emitted record and no
\* open window counts or sums a sub-threshold observation.
C6_GlitchFrame ==
    /\ [][ (StepDone /\ pulse_list # <<>>
              /\ NextObs[2] < GLITCH_THRESHOLD_US) =>
              /\ pc' = "loop"
              /\ pulse_list' = Tail(pulse_list)
              /\ block_input_pulses' = block_input_pulses + 1
              /\ UNCHANGED <<old_epoch, AggStart, dt_agg, pulse_count,
                             out_buffer, block_output_records, store,
                             last_flush_time, emitted, written>> ]_vars
    /\ [](\A i \in 1..Len(emitted) :
             /\ \A j \in 1..Len(emitted_obs[i]) :
                    emitted_obs[i][j][2] >= GLITCH_THRESHOLD_US
             /\ emitted[i][3] = Len(emitted_obs[i])
             /\ NearestMs(emitted[i][2], SumDeltas(emitted_obs[i])))
    /\ [](/\ \A j \in 1..Len(window_obs) :
                 window_obs[j][2] >= GLITCH_THRESHOLD_US
          /\ pulse_count = Len(window_obs)
          /\ dt_agg = SumDeltas(window_obs))

\* a glitch was handled as the third observation, with a window open and a
\* record waiting in the batch
C6_Witness ==
    /\ Len(processed) = 3
    /\ processed[3][2] < GLITCH_THRESHOLD_US
    /\ glitches = 1
    /\ Len(out_buffer) = 1
    /\ pulse_count = 1

\* C7: a qualifying observation o arriving with a window open and
\* o.timestamp > AggStart + MIN_TIME emits exactly one record (AggStart,
\* dt_agg / 1000 rounded to a nearest integer, pulse_count) into the batch
\* (which the same iteration may then flush) and re-seeds the window with
\* (o.timestamp, o.interval, 1); and the stream (100, 60000), (101, 80000),
\* (107, 90000) emits exactly (100, 140, 2) and leaves the window
\* (107, 90000, 1) open.
C7_WindowClose ==
    /\ [][ (StepDone /\ pulse_list # <<>>
              /\ NextObs[2] >= GLITCH_THRESHOLD_US
              /\ old_epoch # NoValue
              /\ NextObs[1] > AggStart + MIN_TIME) =>
              /\ Len(emitted') = Len(emitted) + 1
              /\ SubSeq(emitted', 1, Len(emitted)) = emitted
              /\ emitted'[Len(emitted')][1] = AggStart
              /\ NearestMs(emitted'[Len(emitted')][2], dt_agg)
              /\ emitted'[Len(emitted')][3] = pulse_count
              /\ \/ out_buffer' = Append(out_buffer, emitted'[Len(emitted')])
                 \/ /\ out_buffer' = <<>>
                    /\ written' =
                          written \o Append(out_buffer, emitted'[Len(emitted')])
              /\ AggStart' = NextObs[1]
              /\ dt_agg' = NextObs[2]
              /\ pulse_count' = 1 ]_vars
    /\ []( (processed = << <<100, 60000>>, <<101, 80000>>, <<107, 90000>> >>
              /\ ~drained) =>
              /\ emitted = << <<100, 140, 2>> >>
              /\ AggStart = 107
              /\ dt_agg = 90000
              /\ pulse_count = 1 )

\* the example stream has been consumed
C7_Witness ==
    /\ processed = << <<100, 60000>>, <<101, 80000>>, <<107, 90000>> >>
    /\ emitted = << <<100, 140, 2>> >>
    /\ out_buffer = emitted
    /\ AggStart = 107
    /\ dt_agg = 90000
    /\ pulse_count = 1
    /\ pc = "loop"

RECURSIVE Flatten(_)
Flatten(seqs) ==
    IF seqs = <<>> THEN <<>> ELSE Head(seqs) \o Flatten(Tail(seqs))

\* the observations of a stream that pass the glitch filter, in order
RECURSIVE Qualifying(_)
Qualifying(obs) ==
    IF obs = <<>> THEN <<>>
    ELSE IF Head(obs)[2] >= GLITCH_THRESHOLD_US
         THEN <<Head(obs)>> \o Qualifying(Tail(obs))
         ELSE Qualifying(Tail(obs))

\* the observations of window w: it starts where the window before it ended
WindowMembers(rec, obs) ==
    /\ Len(obs) >= 1
    /\ rec[1] = obs[1][1]
    /\ \A j \in 1..Len(obs) : obs[j][1] <= rec[1] + MIN_TIME
    /\ rec[3] = Len(obs)

\* C8: the qualifying observations processed so far are cut, in order, into
\* the windows of the emitted records and the open window; every emitted
\* record has the timestamp of its window's first observation as epoch, no
\* observation later than epoch + MIN_TIME, the number of its observations
\* as pulseCount and the sum of their intervals (in ms, rounded) as
\* elapsedMillis; the open window likewise; and a qualifying observation
\* with timestamp <= AggStart + MIN_TIME is folded without emitting a record
\* or moving AggStart.
C8_WindowMembership ==
    /\ [](/\ Len(emitted_obs) = Len(emitted)
          /\ Flatten(emitted_obs) \o (IF drained THEN <<>> ELSE window_obs)
                = Qualifying(processed)
          /\ \A i \in 1..Len(emitted) :
                /\ WindowMembers(emitted[i], emitted_obs[i])
                /\ NearestMs(emitted[i][2], SumDeltas(emitted_obs[i]))
          /\ pulse_count > 0 =>
                /\ WindowMembers(<<AggStart, 0, pulse_count>>, window_obs)
                /\ dt_agg = SumDeltas(window_obs))
    /\ [][ (StepDone /\ pulse_list # <<>>
              /\ NextObs[2] >= GLITCH_THRESHOLD_US
              /\ old_epoch # NoValue
              /\ NextObs[1] <= AggStart + MIN_TIME) =>
              /\ emitted' = emitted
              /\ AggStart' = AggStart
              /\ dt_agg' = dt_agg + NextObs[2]
              /\ pulse_count' = pulse_count + 1 ]_vars

\* a record of two pulses whose second observation came exactly MIN_TIME
\* after the first, and an open window behind it
C8_Witness ==
    /\ Len(emitted) >= 1
    /\ emitted[1][3] = 2
    /\ emitted_obs[1][2][1] = emitted[1][1] + MIN_TIME
    /\ pulse_count >= 1
    /\ ~drained

\* C9: the batch never holds more than MAX_RECORDS records, and the
\* iteration that buffers the record bringing the batch to MAX_RECORDS
\* flushes it at once (or fails in the attempt), whatever the elapsed time.
C9_BoundedBatch ==
    /\ [](Len(out_buffer) <= MAX_RECORDS)
    /\ [][ (StepDone /\ Len(emitted') = Len(emitted) + 1
              /\ Len(out_buffer) + 1 = MAX_RECORDS) =>
              \/ /\ pc' = "loop"
                 /\ out_buffer' = <<>>
                 /\ written' =
                       written \o Append(out_buffer, emitted'[Len(emitted')])
                 /\ last_flush_time' = now
              \/ /\ pc' = "failed"
                 /\ written' = written ]_vars

\* MAX_RECORDS records were flushed by the iteration that buffered the last
\* of them, less than the flush interval after start-up, and the next
\* record has started a new batch
C9_Witness ==
    /\ flush_cause = "step"
    /\ Len(written) = MAX_RECORDS
    /\ last_flush_time - StartClock < DbaseBlkTime
    /\ Len(out_buffer) = 1
    /\ Len(emitted) = MAX_RECORDS + 1

\* the batch waits although the flush interval has elapsed, no observation
\* is queued and no stop is requested
Overdue ==
    /\ Alive
    /\ running
    /\ pulse_list = <<>>
    /\ out_buffer # <<>>
    /\ now - last_flush_time >= DbaseBlkTime

\* C10: during input silence, once the flush interval has elapsed with a
\* non-empty batch, the batch is eventually flushed, unless an observation
\* arrives, stop is requested, the clock is set back or the write fails.
C10_IdleFlush == Overdue ~> ~Overdue

\* the idle branch has flushed a batch
C10_Witness ==
    /\ flush_cause = "idle"
    /\ out_buffer = <<>>
    /\ written # <<>>
    /\ last_flush_time - StartClock >= DbaseBlkTime
    /\ running
    /\ pc = "loop"

\* the records of a sequence, as a set
Records(recs) == {recs[i] : i \in 1..Len(recs)}

\* C11: a flush whose write fails leaves the store as it was, and from then
\* on no observation is processed, no record is emitted and the store does
\* not change; the process then ends with a status other than the status of
\* a clean shutdown; a flush whose write succeeds leaves every record of the
\* batch in the store and the batch empty.
C11_FailedWriteIsFatal ==
    /\ [][ (pc # "failed" /\ pc' = "failed") =>
              /\ store' = store
              /\ written' = written
              /\ out_buffer' # <<>> ]_vars
    /\ [][ pc = "failed" =>
              /\ pc' = "failed"
              /\ UNCHANGED <<store, written, processed, emitted,
                             out_buffer>> ]_vars
    /\ [](exit_status # NoValue =>
              /\ pc \in {"closed", "failed"}
              /\ (pc = "failed") = (exit_status # 0)
              /\ (pc = "closed") = (exit_status = 0))
    /\ [][ written' # written =>
              /\ out_buffer' = <<>>
              /\ pc' # "failed"
              /\ \E n \in 1..Len(written') :
                    /\ written' = written \o SubSeq(written', n, Len(written'))
                    /\ Records(SubSeq(written', n, Len(written')))
                          \subseteq store' ]_vars

\* one batch was committed, a later flush failed with a record in the batch,
\* and the process has ended with the failure status
C11_Witness ==
    /\ pc = "failed"
    /\ exit_status = 1
    /\ written # <<>>
    /\ Records(written) = store
    /\ out_buffer # <<>>
    /\ Len(emitted) = Len(written) + Len(out_buffer)
    /\ pulse_list # <<>>

\* C12: when the process has ended with the failure status, the shutdown
\* drain of lines 195-196 has run before it ended.
C12_BestEffortShutdown == exit_status = 1 => drained

\* C13: under every interleaving of the callback's appends with the loop's
\* pops, the observations processed so far followed by the observations
\* still waiting are exactly the observations enqueued, in order: the
\* processed sequence is a prefix of the enqueued one, nothing is processed
\* twice, reordered or merged; and every pop takes the oldest waiting
\* observation.
C13_FifoHandOff ==
    /\ [](/\ enqueued = processed \o pulse_list
          /\ Len(processed) <= Len(enqueued)
          /\ \A i \in 1..Len(processed) : processed[i] = enqueued[i])
    /\ [][ processed' # processed =>
              /\ pulse_list # <<>>
              /\ processed' = Append(processed, Head(pulse_list))
              /\ enqueued' = enqueued ]_vars

\* more observations were enqueued than the list ever held at once, so an
\* append followed a pop; two different observations were processed and one
\* is waiting
C13_Witness ==
    /\ Len(enqueued) = MaxQueue + 1
    /\ Len(processed) = 2
    /\ processed[1] # processed[2]
    /\ Len(pulse_list) = 1
    /\ pulse_list[1] # processed[2]

\* epoch INTEGER PRIMARY KEY (line 94): no two rows share an epoch
UniqueEpochs(rows) == \A x \in rows : \A y \in rows : x[1] = y[1] => x = y

\* the batch handed to the executemany that commits in this step
FlushedBatch == SubSeq(written', Len(written) + 1, Len(written'))

\* the rows a table holds after a batch has been written over it: the rows
\* whose epoch the batch does not mention, and for each epoch of the batch
\* the last record the batch has for it
RowsAfter(rows, batch) ==
    {x \in rows : \A i \in 1..Len(batch) : batch[i][1] # x[1]}
        \cup {batch[i] : i \in {k \in 1..Len(batch) :
                  \A j \in (k + 1)..Len(batch) : batch[j][1] # batch[k][1]}}

\* C14: the table never holds two rows for one epoch; a committed flush
\* leaves, for every epoch of the batch, exactly the last record the batch
\* has for it, whatever row the table held for that epoch before, and keeps
\* the rows of all other epochs; a flush of records the table already holds
\* leaves it unchanged.
C14_UpsertByEpoch ==
    /\ [](UniqueEpochs(store))
    /\ [][ written' # written =>
              /\ store' = RowsAfter(store, FlushedBatch)
              /\ UniqueEpochs(store')
              /\ Records(FlushedBatch) \subseteq store => store' = store ]_vars

\* the run has written (StartClock, 140, 2) over a table that held another
\* payload for that second, and the row of the following second, which this
\* run did not write, is still there
C14_Witness ==
    /\ written = << <<StartClock, 140, 2>> >>
    /\ store = { <<StartClock, 140, 2>>, <<StartClock + 1, 80, 1>> }

\* the ticks of the falling edges among the events, in order
RECURSIVE FallingTicks(_)
FallingTicks(evs) ==
    IF evs = <<>> THEN <<>>
    ELSE IF Head(evs)[1] = 0
         THEN <<Head(evs)[2]>> \o FallingTicks(Tail(evs))
         ELSE FallingTicks(Tail(evs))

\* a + b modulo 2^32 on halves, with the carry out of the low halves
Add32(a, b) ==
    LET carry == IF a[2] + b[2] >= Half THEN 1 ELSE 0
    IN  <<(a[1] + b[1] + carry) % Half, (a[2] + b[2]) % Half>>

\* C15: for the ticks previousTick and tick of two consecutive falling
\* edges, the interval enqueued is the one 32-bit value d with
\* previousTick + d = tick modulo 2^32: both halves of d are in
\* 0 .. 2^16 - 1, so d is in [0, 2^32) and never negative; and
\* previousTick = 0xFFFFFFF0, tick = 0x00000010 give 32.
C15_TickWraparound ==
    /\ Len(enqueued) + 1 <= Len(FallingTicks(events))
          \/ (enqueued = <<>> /\ FallingTicks(events) = <<>>)
    /\ \A i \in 1..Len(enqueued) :
          LET d == enqueued[i][2]
              prev == FallingTicks(events)[i]
              tick == FallingTicks(events)[i + 1]
          IN  /\ d[1] \in 0..(Half - 1)
              /\ d[2] \in 0..(Half - 1)
              /\ Add32(prev, d) = tick
              /\ (prev = <<Half - 1, Half - 16>> /\ tick = <<0, 16>>)
                    => d = <<0, 32>>

\* the counter has wrapped between two falling edges: 0xFFFFFFF0, then 0x10
C15_Witness ==
    /\ FallingTicks(events) = << <<Half - 1, Half - 16>>, <<0, 16>> >>
    /\ Len(enqueued) = 1
    /\ enqueued[1][2] = <<0, 32>>
    /\ previous_tick = <<0, 16>>

\* C19: a call of edge_callback with a level other than 0 leaves
\* previous_tick and pulse_list as they were; so previous_tick is the tick of
\* the latest falling edge, and the i-th observation enqueued carries the
\* interval from the i-th falling edge to the next falling edge, whatever
\* other events came between them.
C19_PolarityFilter ==
    /\ [][ (events' # events /\ events'[Len(events')][1] # 0) =>
              UNCHANGED <<previous_tick, pulse_list, enqueued>> ]_vars
    /\ [](LET falls == FallingTicks(events)
          IN  /\ previous_tick =
                    IF falls = <<>> THEN NoTick ELSE falls[Len(falls)]
              /\ falls # <<>> => Len(enqueued) = Len(falls) - 1
              /\ falls = <<>> => enqueued = <<>>
              /\ \A i \in 1..Len(enqueued) :
                    enqueued[i][2] = TickDelta32(falls[i + 1], falls[i]))

\* a rising edge at tick 0xFFFF came between the falling edges at 0x10 and
\* 0x10000: the interval enqueued is 0xFFF0, not the 1 microsecond since the
\* rising edge
C19_Witness ==
    /\ events = << <<0, <<0, 16>>>>, <<1, <<0, Half - 1>>>>, <<0, <<1, 0>>>> >>
    /\ Len(pulse_list) = 1
    /\ pulse_list[1][2] = <<0, Half - 16>>
    /\ previous_tick = <<1, 0>>

\* C16: the loop leaves for the drain only from its test (line 154) and only
\* with running false; an iteration under way when stop is requested
\* handles its observation completely (it is popped and filtered, seeded,
\* folded or closed) and ends at the loop test with no due batch left
\* unflushed, or in the store's failure; after a test with running false no
\* further iteration starts; and once stop is requested aggregator_loop
\* eventually returns or fails.
C16_CooperativeStop ==
    /\ [][ (pc # "drain" /\ pc' = "drain") => (pc = "loop" /\ ~running) ]_vars
    /\ [][ (pc = "loop" /\ ~running) => pc' # "body" ]_vars
    /\ [][ (StepDone /\ ~running) => pc' \in {"loop", "failed"} ]_vars
    /\ [][ (StepDone /\ ~running /\ pulse_list # <<>>) =>
              /\ pulse_list' = Tail(pulse_list)
              /\ processed' = Append(processed, NextObs)
              /\ \/ glitches' = glitches + 1
                 \/ /\ pulse_count' = 1
                    /\ AggStart' = NextObs[1]
                    /\ dt_agg' = NextObs[2]
                 \/ /\ pulse_count' = pulse_count + 1
                    /\ dt_agg' = dt_agg + NextObs[2]
              /\ (pc' = "loop" /\ glitches' = glitches /\ old_epoch # NoValue)
                    => ~due_after_step' ]_vars
    /\ (~running ~> pc \in {"closed", "failed"})

\* stop was requested while an iteration was under way; that iteration
\* handled its observation, the loop then drained and flushed, and the
\* process ended cleanly
C16_Witness ==
    /\ processed_after_stop
    /\ pc = "closed"
    /\ exit_status = 0
    /\ Len(processed) >= 2
    /\ written = emitted
    /\ Len(written) >= 2

\* the timestamps of a sequence of observations never decrease
NonDecreasing(obs) ==
    \A i \in 1..Len(obs) : \A j \in i..Len(obs) : obs[i][1] <= obs[j][1]

\* C17: while the timestamps of the observations processed have not
\* decreased, every emitted record is followed by a window that starts more
\* than MIN_TIME after the record's epoch: the epochs of the records emitted
\* (the drained one included) grow by more than MIN_TIME from one to the
\* next, the open window starts more than MIN_TIME after the last epoch, and
\* no two records share an epoch.
C17_DistinctEpochs ==
    NonDecreasing(processed) =>
        /\ \A i \in 1..Len(emitted) : \A j \in 1..Len(emitted) :
              i < j => emitted[j][1] > emitted[i][1] + MIN_TIME
        /\ \A i \in 1..Len(emitted) : \A j \in 1..Len(emitted) :
              emitted[i][1] = emitted[j][1] => i = j
        /\ (emitted # <<>> /\ ~drained) =>
              AggStart > emitted[Len(emitted)][1] + MIN_TIME
        /\ \A i \in 1..Len(emitted) :
              \A k \in 1..Len(emitted_obs[i]) :
                 emitted_obs[i][k][1] <= emitted[i][1] + MIN_TIME

\* a window closed by the first observation past its bound, one second
\* after an observation exactly MIN_TIME after its start was folded, and the
\* next window drained on shutdown: two records, MIN_TIME + 1 seconds apart
C17_Witness ==
    /\ NonDecreasing(processed)
    /\ drained
    /\ Len(emitted) = 2
    /\ emitted[2][1] = emitted[1][1] + MIN_TIME + 1
    /\ Len(emitted_obs[1]) = 2
    /\ emitted_obs[1][2][1] = emitted[1][1] + MIN_TIME

\* C18: a call of flush_buffer with an empty batch (from the idle check,
\* from the flush check after a fold, or as the final flush) writes nothing
\* and leaves last_flush_time, block_input_pulses (beyond the count of the
\* observation the iteration popped) and block_output_records as they were;
\* it cannot fail.
C18_EmptyFlushNoOp ==
    /\ [][ (StepDone /\ pulse_list = <<>> /\ out_buffer = <<>>
              /\ now - last_flush_time >= DbaseBlkTime) =>
              /\ pc' = "loop"
              /\ UNCHANGED <<store, written, last_flush_time, out_buffer,
                             block_input_pulses, block_output_records>> ]_vars
    /\ [][ (StepDone /\ pulse_list # <<>> /\ out_buffer = <<>>
              /\ NextObs[2] >= GLITCH_THRESHOLD_US
              /\ old_epoch # NoValue
              /\ NextObs[1] <= AggStart + MIN_TIME
              /\ now - last_flush_time >= DbaseBlkTime) =>
              /\ pc' = "loop"
              /\ block_input_pulses' = block_input_pulses + 1
              /\ UNCHANGED <<store, written, last_flush_time, out_buffer,
                             block_output_records>> ]_vars
    /\ [][ (pc = "flush" /\ pc' # "flush" /\ out_buffer = <<>>) =>
              /\ pc' = "closed"
              /\ UNCHANGED <<store, written, last_flush_time, out_buffer,
                             block_input_pulses, block_output_records>> ]_vars

\* the loop has returned without ever writing: its final flush found the
\* batch empty, a flush interval after start-up, and the count of the
\* glitches it had popped is still there
C18_Witness ==
    /\ pc = "closed"
    /\ written = <<>>
    /\ out_buffer = <<>>
    /\ store = {}
    /\ block_input_pulses >= 1
    /\ now - last_flush_time >= DbaseBlkTime
    /\ last_flush_time = StartClock

\* C20: the first falling edge sets previous_tick and enqueues nothing;
\* every later falling edge appends exactly one observation, stamped with
\* the current second and carrying the interval from previous_tick to the
\* new previous_tick; so before any falling edge nothing has been enqueued,
\* and after n >= 1 falling edges exactly n - 1 observations have been.
C20_FirstEdgeSeeds ==
    /\ [](edges = 0 => (previous_tick = NoValue /\ enqueued = <<>>))
    /\ [](edges >= 1 =>
             (previous_tick # NoValue /\ Len(enqueued) = edges - 1))
    /\ [][ (edges' = edges + 1 /\ edges = 0) =>
              /\ previous_tick' \in TickValues
              /\ UNCHANGED <<pulse_list, enqueued>> ]_vars
    /\ [][ (edges' = edges + 1 /\ edges >= 1) =>
              /\ previous_tick' \in TickValues
              /\ Len(enqueued') = Len(enqueued) + 1
              /\ SubSeq(enqueued', 1, Len(enqueued)) = enqueued
              /\ pulse_list' = Append(pulse_list, enqueued'[Len(enqueued')])
              /\ enqueued'[Len(enqueued')] =
                    <<now, TickDelta(previous_tick', previous_tick)>> ]_vars
    /\ [][ edges' = edges \/ edges' = edges + 1 ]_vars

\* all the falling edges of the run have been delivered: one observation
\* fewer has been enqueued, some of them already popped by the loop
C20_Witness ==
    /\ edges = MaxEdges
    /\ Len(enqueued) = MaxEdges - 1
    /\ Len(processed) >= 1
    /\ previous_tick \in TickValues

\* C21: every emitted record counts at least one pulse; the intervals it
\* sums are each at least the glitch threshold, so their sum is at least
\* pulse_count * GLITCH_THRESHOLD_US; its dt_ms is therefore at least
\* pulse_count * (GLITCH_THRESHOLD_US / 1000), in particular positive, and
\* differs from the sum / 1000 by at most one half.
C21_PositivePayload ==
    \A i \in 1..Len(emitted) :
        /\ emitted[i][3] >= 1
        /\ emitted[i][3] = Len(emitted_obs[i])
        /\ SumDeltas(emitted_obs[i]) >= emitted[i][3] * GLITCH_THRESHOLD_US
        /\ emitted[i][2] >= emitted[i][3] * (GLITCH_THRESHOLD_US \div 1000)
        /\ emitted[i][2] > 0
        /\ 2 * (1000 * emitted[i][2] - SumDeltas(emitted_obs[i])) <= 1000
        /\ 2 * (SumDeltas(emitted_obs[i]) - 1000 * emitted[i][2]) <= 1000

\* a record of two pulses, and behind it a record of one pulse of 60.5 ms,
\* emitted as 60 ms (one half below)
C21_Witness ==
    /\ Len(emitted) = 2
    /\ emitted[1][3] = 2
    /\ emitted[2][3] = 1
    /\ SumDeltas(emitted_obs[2]) = 60500
    /\ emitted[2][2] = 60

\* the engine has not yet seen an observation that passes the glitch filter
\* (old_epoch is None)
AwaitingFirstTick == old_epoch = NoValue

\* C22: while old_epoch is None the window is empty (pulse_count = 0,
\* dt_agg = 0), no observation has passed the glitch filter and no record
\* has been emitted; the step that leaves this state handles an observation
\* at or above the glitch threshold, opens the window (its timestamp, its
\* interval, 1) and emits nothing; old_epoch never becomes None again, and
\* from then on pulse_count >= 1 in every state, with the one open window
\* holding the observations since the last emitted record.
C22_EngineShape ==
    /\ [](AwaitingFirstTick =>
             /\ pulse_count = 0
             /\ dt_agg = 0
             /\ AggStart = 0
             /\ emitted = <<>>
             /\ out_buffer = <<>>
             /\ Qualifying(processed) = <<>>)
    /\ [](~AwaitingFirstTick =>
             /\ pulse_count >= 1
             /\ Len(window_obs) = pulse_count
             /\ Qualifying(processed) # <<>>)
    /\ [][ (AwaitingFirstTick /\ ~AwaitingFirstTick') =>
              /\ pulse_list # <<>>
              /\ NextObs[2] >= GLITCH_THRESHOLD_US
              /\ processed' = Append(processed, NextObs)
              /\ AggStart' = NextObs[1]
              /\ dt_agg' = NextObs[2]
              /\ pulse_count' = 1
              /\ UNCHANGED <<emitted, out_buffer, store, written>> ]_vars
    /\ [][ (AwaitingFirstTick /\ StepDone /\ pulse_list # <<>>
              /\ NextObs[2] >= GLITCH_THRESHOLD_US) => ~AwaitingFirstTick' ]_vars
    /\ [][ ~AwaitingFirstTick => ~AwaitingFirstTick' ]_vars

\* a glitch was filtered while the engine was waiting, the next observation
\* opened the window, and nothing has been emitted
C22_Witness ==
    /\ Len(processed) = 2
    /\ processed[1][2] < GLITCH_THRESHOLD_US
    /\ processed[2][2] >= GLITCH_THRESHOLD_US
    /\ ~AwaitingFirstTick
    /\ AggStart = processed[2][1]
    /\ dt_agg = processed[2][2]
    /\ pulse_count = 1
    /\ emitted = <<>>

\* C23: whatever the order of the observations' timestamps, the epochs of
\* the records emitted in a run grow by more than MIN_TIME from each record
\* to the next (the drained record included), and the open window starts
\* more than MIN_TIME after the last of them; so the records written in a
\* run all have different epochs, no committed flush writes an epoch that
\* an earlier flush of the run wrote, and the table, empty when the run
\* started, holds one row per record written.
C23_EpochsIncrease ==
    /\ [](\A i \in 1..Len(emitted) :
             /\ i < Len(emitted) =>
                   emitted[i + 1][1] > emitted[i][1] + MIN_TIME
             /\ (i = Len(emitted) /\ ~drained) =>
                   AggStart > emitted[i][1] + MIN_TIME)
    /\ [](Cardinality({written[i][1] : i \in 1..Len(written)}) = Len(written))
    /\ [](Cardinality(store) = Len(written))
    /\ [][ written' # written =>
              \A i \in 1..Len(FlushedBatch) : \A j \in 1..Len(written) :
                 FlushedBatch[i][1] # written[j][1] ]_vars

\* the timestamps stepped back after a window had closed: the late
\* observation was folded into the open window, and the two records of the
\* run, the second one drained, are in the table
C23_Witness ==
    /\ ~NonDecreasing(processed)
    /\ drained
    /\ Len(emitted) = 2
    /\ Len(emitted_obs[2]) = 2
    /\ emitted_obs[2][2][1] < emitted[2][1]
    /\ written = emitted
    /\ Cardinality(store) = 2

\* C24: last_flush_time changes only in a step that commits a non-empty
\* batch, and then to the current time: an idle check, an empty flush and a
\* failed write leave it alone.  So when a window close finds the batch
\* empty and at least DbaseBlkTime elapsed since last_flush_time, the record
\* it emits is written in the same iteration as a batch of one (or the
\* write fails).
C24_LastFlushTime ==
    /\ [][ last_flush_time' # last_flush_time =>
              /\ written' # written
              /\ FlushedBatch # <<>>
              /\ last_flush_time' = now ]_vars
    /\ [][ written' = written => last_flush_time' = last_flush_time ]_vars
    /\ [][ (StepDone /\ Len(emitted') = Len(emitted) + 1
              /\ out_buffer = <<>>
              /\ now - last_flush_time >= DbaseBlkTime) =>
              \/ /\ pc' = "loop"
                 /\ FlushedBatch = <<emitted'[Len(emitted')]>>
                 /\ out_buffer' = <<>>
                 /\ last_flush_time' = now
              \/ /\ pc' = "failed"
                 /\ written' = written
                 /\ last_flush_time' = last_flush_time ]_vars

\* the first record of the run was emitted a flush interval after start-up,
\* after glitches had been counted, and was written at once by the
\* iteration that emitted it: the observation that closed the window is
\* the only one in the open window
C24_Witness ==
    /\ flush_cause = "step"
    /\ Len(emitted) = 1
    /\ written = emitted
    /\ out_buffer = <<>>
    /\ last_flush_time - StartClock >= DbaseBlkTime
    /\ glitches >= 1
    /\ window_obs = <<processed[Len(processed)]>>
    /\ block_input_pulses = 0
    /\ pc = "loop"

\* the number of entries at the end of a sequence that equal its last entry
RECURSIVE TrailingRun(_)
TrailingRun(seq) ==
    IF Len(seq) <= 1 THEN Len(seq)
    ELSE IF seq[Len(seq) - 1] = seq[Len(seq)]
         THEN 1 + TrailingRun(SubSeq(seq, 1, Len(seq) - 1))
         ELSE 1

\* the latest DEBOUNCE_COUNT samples all have the masked value v
SettledOn(samples, v) ==
    /\ Len(samples) = DEBOUNCE_COUNT
    /\ \A i \in 1..Len(samples) : samples[i] = v

\* C25: in the loop of collect_state, stable_state changes exactly in the
\* iteration whose sample completes DEBOUNCE_COUNT consecutive samples of
\* one masked value different from stable_state; that iteration inserts
\* and publishes one row (new epoch, new state), and no other iteration
\* inserts or publishes; candidate_count is the number of consecutive
\* latest samples equal to the candidate, zero after a sample equal to
\* stable_state; and consecutive logged states differ.
C25_Debounce ==
    /\ [][ (state_pc = "sample" /\ stable_state' # stable_state) =>
              /\ SettledOn(recent', stable_state')
              /\ logged' = Append(logged, <<last_epoch', stable_state'>>)
              /\ published' = Append(published, <<last_epoch', stable_state'>>)
              /\ furnace_state' =
                    furnace_state \cup {<<last_epoch', stable_state'>>}
              /\ candidate_count' = 0 ]_vars
    /\ [][ (state_pc = "sample" /\ stable_state' = stable_state) =>
              UNCHANGED <<logged, published, furnace_state, last_epoch>> ]_vars
    /\ [][ (state_pc = "sample" /\ recent' # <<>>
              /\ (recent' # recent \/ candidate_count' # candidate_count)
              /\ SettledOn(recent', recent'[1])
              /\ recent'[1] # stable_state) =>
              stable_state' = recent'[1] ]_vars
    /\ [](state_pc = "sample" =>
             /\ candidate_count < DEBOUNCE_COUNT
             /\ candidate_count =
                   IF recent = <<>> \/ recent[Len(recent)] = stable_state
                   THEN 0 ELSE TrailingRun(recent)
             /\ candidate_count > 0 => candidate_state = recent[Len(recent)])
    /\ [](/\ published = logged
          /\ \A i \in 1..(Len(logged) - 1) : logged[i][2] # logged[i + 1][2])

\* the run has logged its first sample and two accepted changes; before
\* the second change was accepted a candidate had been counted and dropped
\* (the latest samples all equal the new stable state, and it is not the
\* state logged first)
C25_Witness ==
    /\ Len(logged) = 3
    /\ published = logged
    /\ SettledOn(recent, stable_state)
    /\ stable_state = logged[3][2]
    /\ logged[3][2] # logged[1][2]
    /\ candidate_count = 0
    /\ state_pc = "sample"

\* C26: the epochs EpochGenerator.next returns in a run increase strictly,
\* whatever the clock does, and all exceed every epoch the table held when
\* the run started; so no INSERT is rejected by the primary key, the table
\* holds one row per epoch, and every row the run logged is in it.
C26_UniqueEpochs ==
    /\ [](\A i \in 1..Len(logged) : \A j \in 1..Len(logged) :
             i < j => logged[i][1] < logged[j][1])
    /\ [](\A x \in furnace_state \ Records(logged) :
             \A i \in 1..Len(logged) : x[1] < logged[i][1])
    /\ [](state_pc # "failed")
    /\ [](UniqueEpochs(furnace_state))
    /\ [](Records(logged) \subseteq furnace_state)
    /\ [](logged # <<>> => last_epoch = logged[Len(logged)][1])
    /\ [][ last_epoch' # last_epoch =>
              /\ last_epoch' > last_epoch
              /\ last_epoch' >= now
              /\ \A x \in furnace_state : last_epoch' > x[1] ]_vars

\* three rows logged while the clock was behind the epoch an earlier run
\* left in the table: the generator counted on from that epoch
C26_Witness ==
    /\ Len(logged) = 3
    /\ \E x \in furnace_state \ Records(logged) :
          /\ now < x[1]
          /\ logged[1][1] = x[1] + 1
    /\ logged[2][1] = logged[1][1] + 1
    /\ logged[3][1] = logged[2][1] + 1

====
